---- MODULE Spec2Model ----
(***************************************************************************)
(* Model of the skyline bin packer of texture_packer                       *)
(* (src/src/packer/skyline_packer.rs), of the frame geometry               *)
(* (src/src/frame.rs) and of the sub-texture view                          *)
(* (src/src/texture/sub_texture.rs).                                       *)
(*                                                                         *)
(* Vec indices are 0-based in the source and 1-based here: segment i of    *)
(* the source is skylines[i + 1].  All quantities are u32 in the source;   *)
(* the bins and rectangles explored are far below 2^32, so the sums in     *)
(* pack/can_put/split do not wrap.  The subtractions of frame.rs can go    *)
(* below zero: they are modelled with both outcomes a build can produce    *)
(* (overflow panic, wrap-around modulo 2^32).                              *)
(***************************************************************************)
EXTENDS Integers, Sequences, FiniteSets, TLC

VARIABLES config, border, skylines, pre, last, probe, log, held, sub, touch

vars == <<config, border, skylines, pre, last, probe, log, held, sub, touch>>

(***************************************************************************)
(* Bounds of the exploration.                                              *)
(***************************************************************************)
MaxWidth == 4
MaxHeight == 3
MaxPadding == 1
MaxExtrusion == 1
MaxSide == 2
MaxCoord == 1
MaxCalls == 4

(***************************************************************************)
(* std::u32::MAX is 4294967295.  The model checker's integers stop at      *)
(* 2^31 - 1, which stands for it in find_skyline: like u32::MAX it is      *)
(* larger than every bottom edge and every segment width of the bins       *)
(* explored, which is all find_skyline uses it for.                        *)
(***************************************************************************)
U32_MAX == 2147483647

Keys == {"a"}

(***************************************************************************)
(* Rect (crate::rect): inclusive edges, bottom = y + h - 1.                *)
(***************************************************************************)
Rect_new(x, y, w, h) == [x |-> x, y |-> y, w |-> w, h |-> h]

Rect_top(r) == r.y

Rect_bottom(r) == r.y + r.h - 1

Rect_left(r) == r.x

Rect_right(r) == r.x + r.w - 1

Rect_contains(self, other) ==
    /\ Rect_left(self) <= Rect_left(other)
    /\ Rect_right(self) >= Rect_right(other)
    /\ Rect_top(self) <= Rect_top(other)
    /\ Rect_bottom(self) >= Rect_bottom(other)

(***************************************************************************)
(* Skyline segment {x, y, w}.                                              *)
(***************************************************************************)
Skyline(x, y, w) == [x |-> x, y |-> y, w |-> w]

Skyline_left(s) == s.x

Skyline_right(s) == s.x + s.w - 1

max(a, b) == IF a >= b THEN a ELSE b

NoRect == Rect_new(0, 0, 0, 0)

(***************************************************************************)
(* The packer object: the three fields of SkylinePacker.                   *)
(***************************************************************************)
Packer(c, b, sk) == [config |-> c, border |-> b, skylines |-> sk]

SkylinePacker_new(c) ==
    Packer(c, Rect_new(0, 0, c.max_width, c.max_height),
           << Skyline(0, 0, c.max_width) >>)

Self == Packer(config, border, skylines)

PreSelf == Packer(config, border, pre)

(***************************************************************************)
(* can_put: walk the segments from i, raising rect.y to the highest        *)
(* segment met, until the width is covered.  kind is "some", "none" or     *)
(* "abort" (the assertion i < skylines.len()).                             *)
(***************************************************************************)
RECURSIVE can_put_loop_width_first(_, _, _, _)
can_put_loop_width_first(self, i, rect0, width_left) ==
    LET rect == [rect0 EXCEPT !.y = max(rect0.y, self.skylines[i].y)]
    IN  IF self.skylines[i].w >= width_left
          THEN [kind |-> "some", rect |-> rect]
        ELSE IF ~Rect_contains(self.border, rect)
          THEN [kind |-> "none", rect |-> NoRect]
        ELSE IF ~(i + 1 <= Len(self.skylines))
          THEN [kind |-> "abort", rect |-> NoRect]
        ELSE can_put_loop_width_first(self, i + 1, rect, width_left - self.skylines[i].w)

RECURSIVE can_put_loop_strict(_, _, _, _)
can_put_loop_strict(self, i, rect0, width_left) ==
    LET rect == [rect0 EXCEPT !.y = max(rect0.y, self.skylines[i].y)]
    IN  IF ~Rect_contains(self.border, rect)
          THEN [kind |-> "none", rect |-> NoRect]
        ELSE IF self.skylines[i].w > width_left
          THEN [kind |-> "some", rect |-> rect]
        ELSE IF ~(i + 1 <= Len(self.skylines))
          THEN [kind |-> "abort", rect |-> NoRect]
        ELSE can_put_loop_strict(self, i + 1, rect, width_left - self.skylines[i].w)

RECURSIVE can_put_loop_late_check(_, _, _, _)
can_put_loop_late_check(self, i, rect0, width_left) ==
    LET rect == [rect0 EXCEPT !.y = max(rect0.y, self.skylines[i].y)]
    IN  IF self.skylines[i].w >= width_left
          THEN IF Rect_contains(self.border, rect)
                 THEN [kind |-> "some", rect |-> rect]
                 ELSE [kind |-> "none", rect |-> NoRect]
        ELSE IF ~(i + 1 <= Len(self.skylines))
          THEN [kind |-> "abort", rect |-> NoRect]
        ELSE can_put_loop_late_check(self, i + 1, rect, width_left - self.skylines[i].w)

RECURSIVE can_put_loop(_, _, _, _)
can_put_loop(self, i, rect0, width_left) ==
    LET rect == [rect0 EXCEPT !.y = max(rect0.y, self.skylines[i].y)]
    IN  IF ~Rect_contains(self.border, rect)
          THEN [kind |-> "none", rect |-> NoRect]
        ELSE IF self.skylines[i].w >= width_left
          THEN [kind |-> "some", rect |-> rect]
        ELSE IF ~(i + 1 <= Len(self.skylines))
          THEN [kind |-> "abort", rect |-> NoRect]
        ELSE can_put_loop(self, i + 1, rect, width_left - self.skylines[i].w)

can_put(self, i, w, h) ==
    can_put_loop(self, i, Rect_new(self.skylines[i].x, 0, w, h), w)

(***************************************************************************)
(* find_skyline: scan every start segment, both orientations when          *)
(* rotation is allowed, keeping bottom and then width as small as          *)
(* possible.  index = 0 stands for None.                                   *)
(***************************************************************************)
better_first_fit(self, i, r, best) == best.index = 0

better_last_fit(self, i, r, best) ==
    \/ Rect_bottom(r) < best.bottom
    \/ (Rect_bottom(r) = best.bottom /\ self.skylines[i].w <= best.width)

better(self, i, r, best) ==
    \/ Rect_bottom(r) < best.bottom
    \/ (Rect_bottom(r) = best.bottom /\ self.skylines[i].w < best.width)

consider(self, i, c, best) ==
    IF c.kind = "abort" THEN [best EXCEPT !.abort = TRUE]
    ELSE IF c.kind = "some" /\ better(self, i, c.rect, best)
      THEN [bottom |-> Rect_bottom(c.rect), width |-> self.skylines[i].w,
            index |-> i, rect |-> c.rect, abort |-> best.abort]
    ELSE best

RECURSIVE find_loop_always_rotate(_, _, _, _, _)
find_loop_always_rotate(self, w, h, i, best) ==
    IF i > Len(self.skylines) \/ best.abort THEN best
    ELSE LET b1 == consider(self, i, can_put(self, i, w, h), best)
             b2 == IF ~b1.abort
                     THEN consider(self, i, can_put(self, i, h, w), b1)
                     ELSE b1
         IN  find_loop_always_rotate(self, w, h, i + 1, b2)

RECURSIVE find_loop(_, _, _, _, _)
find_loop(self, w, h, i, best) ==
    IF i > Len(self.skylines) \/ best.abort THEN best
    ELSE LET b1 == consider(self, i, can_put(self, i, w, h), best)
             b2 == IF self.config.allow_rotation /\ ~b1.abort
                     THEN consider(self, i, can_put(self, i, h, w), b1)
                     ELSE b1
         IN  find_loop(self, w, h, i + 1, b2)

find_skyline(self, w, h) ==
    LET best == find_loop(self, w, h, 1,
                    [bottom |-> U32_MAX, width |-> U32_MAX, index |-> 0,
                     rect |-> NoRect, abort |-> FALSE])
    IN  IF best.abort THEN [kind |-> "abort", index |-> 0, rect |-> NoRect]
        ELSE IF best.index = 0 THEN [kind |-> "none", index |-> 0, rect |-> NoRect]
        ELSE [kind |-> "some", index |-> best.index, rect |-> best.rect]

(***************************************************************************)
(* Vec::insert and Vec::remove at a 1-based position.                      *)
(***************************************************************************)
insert(s, i, e) == SubSeq(s, 1, i - 1) \o << e >> \o SubSeq(s, i, Len(s))

remove(s, i) == SubSeq(s, 1, i - 1) \o SubSeq(s, i + 1, Len(s))

(***************************************************************************)
(* split: insert the segment on top of rect at index, then remove or       *)
(* shrink the following segments it covers.  ok = FALSE when one of the    *)
(* three assertions fails; the first two are tested before the profile is  *)
(* touched.                                                                *)
(***************************************************************************)
RECURSIVE split_loop_remove_covered(_, _)
split_loop_remove_covered(sk, i) ==
    IF ~(i <= Len(sk)) THEN [ok |-> TRUE, skylines |-> sk]
    ELSE IF ~(Skyline_left(sk[i - 1]) <= Skyline_left(sk[i]))
      THEN [ok |-> FALSE, skylines |-> sk]
    ELSE IF Skyline_left(sk[i]) <= Skyline_right(sk[i - 1])
      THEN split_loop_remove_covered(remove(sk, i), i)
    ELSE [ok |-> TRUE, skylines |-> sk]

RECURSIVE split_loop_insert_remainder(_, _)
split_loop_insert_remainder(sk, i) ==
    IF ~(i <= Len(sk)) THEN [ok |-> TRUE, skylines |-> sk]
    ELSE IF ~(Skyline_left(sk[i - 1]) <= Skyline_left(sk[i]))
      THEN [ok |-> FALSE, skylines |-> sk]
    ELSE IF Skyline_left(sk[i]) <= Skyline_right(sk[i - 1])
      THEN LET shrink == Skyline_right(sk[i - 1]) - Skyline_left(sk[i]) + 1
           IN  IF sk[i].w <= shrink
                 THEN split_loop_insert_remainder(remove(sk, i), i)
                 ELSE [ok |-> TRUE,
                       skylines |-> insert(sk, i - 1,
                           Skyline(sk[i].x + shrink, sk[i].y, sk[i].w - shrink))]
    ELSE [ok |-> TRUE, skylines |-> sk]

RECURSIVE split_loop(_, _)
split_loop(sk, i) ==
    IF ~(i <= Len(sk)) THEN [ok |-> TRUE, skylines |-> sk]
    ELSE IF ~(Skyline_left(sk[i - 1]) <= Skyline_left(sk[i]))
      THEN [ok |-> FALSE, skylines |-> sk]
    ELSE IF Skyline_left(sk[i]) <= Skyline_right(sk[i - 1])
      THEN LET shrink == Skyline_right(sk[i - 1]) - Skyline_left(sk[i]) + 1
           IN  IF sk[i].w <= shrink
                 THEN split_loop(remove(sk, i), i)
                 ELSE [ok |-> TRUE,
                       skylines |-> [sk EXCEPT ![i] =
                           Skyline(sk[i].x + shrink, sk[i].y, sk[i].w - shrink)]]
    ELSE [ok |-> TRUE, skylines |-> sk]

split_asserts(self, skyline) ==
    /\ Skyline_right(skyline) <= Rect_right(self.border)
    /\ skyline.y <= Rect_bottom(self.border)

split_top_of_rect(self, index, rect) ==
    LET skyline == Skyline(Rect_left(rect), Rect_top(rect), rect.w)
    IN  IF ~split_asserts(self, skyline)
          THEN [ok |-> FALSE, skylines |-> self.skylines]
          ELSE split_loop(insert(self.skylines, index, skyline), index + 1)

split(self, index, rect) ==
    LET skyline == Skyline(Rect_left(rect), Rect_bottom(rect) + 1, rect.w)
    IN  IF ~split_asserts(self, skyline)
          THEN [ok |-> FALSE, skylines |-> self.skylines]
          ELSE split_loop(insert(self.skylines, index, skyline), index + 1)

(***************************************************************************)
(* merge: fuse adjacent segments of equal y, left to right.                *)
(***************************************************************************)
RECURSIVE merge_loop_drop(_, _)
merge_loop_drop(sk, i) ==
    IF ~(i <= Len(sk)) THEN sk
    ELSE IF sk[i - 1].y = sk[i].y
      THEN merge_loop_drop(remove(sk, i), i)
    ELSE merge_loop_drop(sk, i + 1)

RECURSIVE merge_loop_advance(_, _)
merge_loop_advance(sk, i) ==
    IF ~(i <= Len(sk)) THEN sk
    ELSE IF sk[i - 1].y = sk[i].y
      THEN merge_loop_advance(remove([sk EXCEPT ![i - 1] =
                                 Skyline(sk[i - 1].x, sk[i - 1].y, sk[i - 1].w + sk[i].w)],
                             i),
                      i + 1)
    ELSE merge_loop_advance(sk, i + 1)

RECURSIVE merge_loop(_, _)
merge_loop(sk, i) ==
    IF ~(i <= Len(sk)) THEN sk
    ELSE IF sk[i - 1].y = sk[i].y
      THEN merge_loop(remove([sk EXCEPT ![i - 1] =
                                 Skyline(sk[i - 1].x, sk[i - 1].y, sk[i - 1].w + sk[i].w)],
                             i),
                      i)
    ELSE merge_loop(sk, i + 1)

merge(sk) == merge_loop(sk, 2)

(***************************************************************************)
(* Frame<K>.                                                               *)
(***************************************************************************)
Frame(key, frame, rotated, trimmed, source) ==
    [key |-> key, frame |-> frame, rotated |-> rotated, trimmed |-> trimmed,
     source |-> source]

NoFrame == Frame("", NoRect, FALSE, FALSE, NoRect)

padded(self, side) ==
    side + self.config.texture_padding + self.config.texture_extrusion * 2

strip_add(self, rect) ==
    Rect_new(rect.x, rect.y,
             rect.w + (self.config.texture_padding + self.config.texture_extrusion * 2),
             rect.h + (self.config.texture_padding + self.config.texture_extrusion * 2))

strip(self, rect) ==
    Rect_new(rect.x, rect.y,
             rect.w - (self.config.texture_padding + self.config.texture_extrusion * 2),
             rect.h - (self.config.texture_padding + self.config.texture_extrusion * 2))

(***************************************************************************)
(* pack: kind is "frame" (Some), "none" (None) or "abort" (an assertion    *)
(* failed); skylines is the profile the call leaves behind; placed is the  *)
(* padded rectangle find_skyline chose.                                    *)
(***************************************************************************)
pack(self, key, texture_rect) ==
    LET width == padded(self, texture_rect.w)
        height == padded(self, texture_rect.h)
        found == find_skyline(self, width, height)
        rect == found.rect
        cut == split(self, found.index, rect)
        rotated == width # rect.w
    IN  IF found.kind = "abort"
          THEN [kind |-> "abort", frame |-> NoFrame, placed |-> NoRect,
                skylines |-> self.skylines]
        ELSE IF found.kind = "none"
          THEN [kind |-> "none", frame |-> NoFrame, placed |-> NoRect,
                skylines |-> self.skylines]
        ELSE IF ~cut.ok
          THEN [kind |-> "abort", frame |-> NoFrame, placed |-> rect,
                skylines |-> cut.skylines]
        ELSE [kind |-> "frame",
              frame |-> Frame(key, strip(self, rect), rotated, FALSE,
                              Rect_new(0, 0, texture_rect.w, texture_rect.h)),
              placed |-> rect,
              skylines |-> merge(cut.skylines)]

(***************************************************************************)
(* can_pack: the dry run.  ok is the boolean returned; placed is the       *)
(* rectangle the dry run computed (NoRect when there is none).             *)
(***************************************************************************)
can_pack_no_check(self, texture_rect) ==
    LET found == find_skyline(self, padded(self, texture_rect.w),
                                    padded(self, texture_rect.h))
    IN  IF found.kind = "abort"
          THEN [kind |-> "abort", ok |-> FALSE, placed |-> NoRect]
          ELSE [kind |-> "bool", ok |-> (found.kind = "some"), placed |-> found.rect]

can_pack(self, texture_rect) ==
    LET found == find_skyline(self, padded(self, texture_rect.w),
                                    padded(self, texture_rect.h))
        rect == found.rect
        skyline == Skyline(Rect_left(rect), Rect_bottom(rect) + 1, rect.w)
    IN  IF found.kind = "abort"
          THEN [kind |-> "abort", ok |-> FALSE, placed |-> NoRect]
        ELSE IF found.kind = "some"
          THEN [kind |-> "bool",
                ok |-> (Skyline_right(skyline) <= Rect_right(self.border)
                          /\ skyline.y <= Rect_bottom(self.border)),
                placed |-> rect]
        ELSE [kind |-> "bool", ok |-> FALSE, placed |-> NoRect]

(***************************************************************************)
(* Frame::offset_to_frame_center_before_trimming.  The source computes in  *)
(* u32: a subtraction that goes below zero panics in a build with          *)
(* overflow checks and wraps modulo 2^32 in a build without, so the        *)
(* operator gives the set of outcomes.  A u32 result is written as its two *)
(* 16-bit halves [hi, lo], value hi * 65536 + lo, so that a wrapped value  *)
(* such as 2^32 - 1 can be written down.                                   *)
(***************************************************************************)
U32(n) == [hi |-> n \div 65536, lo |-> n % 65536]

U32_wrap(n) ==
    IF n >= 0 THEN U32(n)
    ELSE [hi |-> 65535 - ((-n - 1) \div 65536), lo |-> 65535 - ((-n - 1) % 65536)]

Zero == << U32(0), U32(0) >>

offset_axis(fpos, fsize, spos, ssize) ==
    LET og_start == fpos - spos
        center == og_start + ssize \div 2
        trimmed_center == fpos + fsize \div 2
        offset == center - trimmed_center
    IN  [overflow |-> (og_start < 0 \/ offset < 0),
         value |-> U32_wrap(offset)]

offset_always_computed(f) ==
    LET ax == offset_axis(f.frame.x, f.frame.w, f.source.x, f.source.w)
        ay == offset_axis(f.frame.y, f.frame.h, f.source.y, f.source.h)
        wrapped == [kind |-> "value", off |-> << ax.value, ay.value >>]
    IN  IF ax.overflow \/ ay.overflow
          THEN { [kind |-> "abort", off |-> Zero], wrapped }
          ELSE { wrapped }

offset_to_frame_center_before_trimming(f) ==
    IF ~f.trimmed THEN { [kind |-> "value", off |-> Zero] }
    ELSE LET ax == offset_axis(f.frame.x, f.frame.w, f.source.x, f.source.w)
             ay == offset_axis(f.frame.y, f.frame.h, f.source.y, f.source.h)
             wrapped == [kind |-> "value", off |-> << ax.value, ay.value >>]
         IN  IF ax.overflow \/ ay.overflow
               THEN { [kind |-> "abort", off |-> Zero], wrapped }
               ELSE { wrapped }

(***************************************************************************)
(* SkylinePacker::frame_center_before_trimming, in u32 like the offset:    *)
(* frame.x - source.x panics or wraps when source.x > frame.x.  A wrapped  *)
(* centre is 2^32 + n for the signed centre n < 0, above every border      *)
(* width, so clamp(border.x, border.w) gives border.w for it.              *)
(***************************************************************************)
clamp(v, lo, hi) == IF v < lo THEN lo ELSE IF v > hi THEN hi ELSE v

center_axis(fpos, spos, ssize, lo, hi) ==
    LET og_start == fpos - spos
        center == og_start + ssize \div 2
    IN  [overflow |-> og_start < 0,
         value |-> IF center < 0 THEN hi ELSE clamp(center, lo, hi)]

frame_center_before_trimming(self, f) ==
    IF ~f.trimmed
      THEN { [kind |-> "value",
              off |-> << U32(f.frame.x + f.frame.w \div 2),
                         U32(f.frame.y + f.frame.h \div 2) >>] }
    ELSE LET cx == center_axis(f.frame.x, f.source.x, f.source.w,
                               self.border.x, self.border.w)
             cy == center_axis(f.frame.y, f.source.y, f.source.h,
                               self.border.y, self.border.h)
             wrapped == [kind |-> "value", off |-> << U32(cx.value), U32(cy.value) >>]
         IN  IF cx.overflow \/ cy.overflow
               THEN { [kind |-> "abort", off |-> Zero], wrapped }
               ELSE { wrapped }

(***************************************************************************)
(* The parent texture of a SubTexture.  The Texture implementations are    *)
(* outside src/: the parent is taken to be a pixel grid of                 *)
(* width x height, get gives the pixel inside it and None outside, set     *)
(* stores the pixel inside it; what set does outside the grid is left      *)
(* open (nothing, or a panic).                                             *)
(***************************************************************************)
Texture(w, h, pixels) == [w |-> w, h |-> h, pixels |-> pixels]

Texture_inside(t, x, y) == x < t.w /\ y < t.h

Texture_get(t, x, y) ==
    IF Texture_inside(t, x, y)
      THEN [kind |-> "some", pixel |-> t.pixels[<< x, y >>]]
      ELSE [kind |-> "none", pixel |-> 0]

Texture_set(t, x, y, val) ==
    IF Texture_inside(t, x, y)
      THEN { [kind |-> "ok", texture |-> [t EXCEPT !.pixels[<< x, y >>] = val]] }
      ELSE { [kind |-> "ok", texture |-> t], [kind |-> "abort", texture |-> t] }

(***************************************************************************)
(* SubTexture: texture is the Cow (owned = Cow::Owned, t the parent it     *)
(* holds or borrows), source the window.  set gives the set of outcomes    *)
(* [kind, self]: kind "abort" is the panic.                                *)
(***************************************************************************)
SubTexture(owned, t, source) ==
    [texture |-> [owned |-> owned, t |-> t], source |-> source]

SubTexture_new(texture, source) == SubTexture(TRUE, texture, source)

SubTexture_from_ref(texture, source) == SubTexture(FALSE, texture, source)

SubTexture_get(self, x, y) ==
    Texture_get(self.texture.t, self.source.x + x, self.source.y + y)

SubTexture_set_unshifted(self, x, y, val) ==
    IF self.texture.owned
      THEN { [kind |-> o.kind, self |-> [self EXCEPT !.texture.t = o.texture]] :
               o \in Texture_set(self.texture.t, x, y, val) }
      ELSE { [kind |-> "abort", self |-> self] }

SubTexture_set(self, x, y, val) ==
    IF self.texture.owned
      THEN { [kind |-> o.kind, self |-> [self EXCEPT !.texture.t = o.texture]] :
               o \in Texture_set(self.texture.t, self.source.x + x,
                                 self.source.y + y, val) }
      ELSE { [kind |-> "abort", self |-> self] }

(***************************************************************************)
(* Inputs.                                                                 *)
(***************************************************************************)
FrameConfigs ==
    [max_width : {MaxWidth}, max_height : {MaxHeight},
     allow_rotation : BOOLEAN,
     texture_padding : {0, MaxPadding}, texture_extrusion : {0}]

Configs ==
    [max_width : 1 .. MaxWidth, max_height : 1 .. MaxHeight,
     allow_rotation : BOOLEAN,
     texture_padding : 0 .. MaxPadding, texture_extrusion : 0 .. MaxExtrusion]

TextureRects == { Rect_new(0, 0, w, h) : w \in 1 .. MaxSide, h \in 1 .. MaxSide }

FrameRects ==
    { Rect_new(x, y, w, h) : x \in 0 .. MaxCoord, y \in 0 .. MaxCoord,
                             w \in 1 .. MaxCoord + 1, h \in 1 .. MaxCoord + 1 }

FrameInputs ==
    { Frame(k, fr, FALSE, t, src) :
        k \in Keys, fr \in FrameRects, t \in BOOLEAN, src \in FrameRects }

ExampleConfig ==
    [max_width |-> 200, max_height |-> 200, allow_rotation |-> FALSE,
     texture_padding |-> 0, texture_extrusion |-> 0]

ExampleRects ==
    { Rect_new(0, 0, 100, 50), Rect_new(0, 0, 100, 150), Rect_new(0, 0, 100, 10) }

Pixels == {0, 1}

ParentSide == MaxCoord + 1

BlankTexture ==
    Texture(ParentSide, ParentSide,
            [p \in (0 .. ParentSide - 1) \X (0 .. ParentSide - 1) |-> 0])

SubSources == { Rect_new(x, y, 1, 1) : x \in 0 .. MaxCoord, y \in 0 .. MaxCoord }

SubTextures ==
    { SubTexture_new(BlankTexture, s) : s \in SubSources }
      \cup { SubTexture_from_ref(BlankTexture, s) : s \in SubSources }

NoSub == SubTexture_from_ref(Texture(0, 0, << >>), NoRect)

(***************************************************************************)
(* State.  config, border, skylines are the packer's fields.  last is the  *)
(* latest call and what it returned, pre the profile that call started     *)
(* from, probe the can_pack call that came right before the latest pack    *)
(* with the same rectangle, log the calls of a session in order, held the  *)
(* frame in the caller's hands (Frame is a public struct: any frame the    *)
(* caller built, or the one the latest successful pack returned).          *)
(***************************************************************************)
Call(op, key, rect, arg, kind, frame, placed, ok, off) ==
    [op |-> op, key |-> key, rect |-> rect, arg |-> arg, kind |-> kind,
     frame |-> frame, placed |-> placed, ok |-> ok, off |-> off]

NoProbe == [valid |-> FALSE, ok |-> FALSE, placed |-> NoRect]

Touch(op, x, y, val, kind, got, before, wrote) ==
    [op |-> op, x |-> x, y |-> y, val |-> val, kind |-> kind, got |-> got,
     before |-> before, wrote |-> wrote]

NoWrote == [valid |-> FALSE, val |-> 0]

NoGot == [kind |-> "none", pixel |-> 0]

NoTouch == Touch("none", 0, 0, 0, "ok", NoGot, NoSub, NoWrote)

InitAll(c, f, s) ==
    /\ config = SkylinePacker_new(c).config
    /\ border = SkylinePacker_new(c).border
    /\ skylines = SkylinePacker_new(c).skylines
    /\ pre = skylines
    /\ last = Call("new", "", NoRect, NoFrame, "packer", NoFrame, NoRect, FALSE, Zero)
    /\ probe = NoProbe
    /\ log = << >>
    /\ held = f
    /\ sub = s
    /\ touch = NoTouch

InitWith(c, f) == InitAll(c, f, NoSub)

Init == \E c \in Configs : InitWith(c, NoFrame)

alive == last.kind # "abort"

PackCall(key, r) ==
    /\ alive
    /\ \E res \in { pack(Self, key, r) } :
           /\ skylines' = res.skylines
           /\ last' = Call("pack", key, r, NoFrame, res.kind, res.frame,
                           res.placed, FALSE, Zero)
           /\ held' = IF res.kind = "frame" THEN res.frame ELSE held
    /\ pre' = skylines
    /\ probe' = IF last.op = "can_pack" /\ last.rect = r
                  THEN [valid |-> TRUE, ok |-> last.ok, placed |-> last.placed]
                  ELSE NoProbe
    /\ UNCHANGED << config, border, sub, touch >>

Pack(key, r) ==
    /\ PackCall(key, r)
    /\ UNCHANGED log

CanPack_commit(r) ==
    /\ alive
    /\ \E res \in { can_pack(Self, r) } :
           last' = Call("can_pack", "", r, NoFrame, res.kind, NoFrame,
                        res.placed, res.ok, Zero)
    /\ skylines' = pack(Self, "", r).skylines
    /\ pre' = skylines
    /\ probe' = NoProbe
    /\ UNCHANGED << config, border, log, held, sub, touch >>

CanPack(r) ==
    /\ alive
    /\ \E res \in { can_pack(Self, r) } :
           last' = Call("can_pack", "", r, NoFrame, res.kind, NoFrame,
                        res.placed, res.ok, Zero)
    /\ pre' = skylines
    /\ probe' = NoProbe
    /\ UNCHANGED << config, border, skylines, log, held, sub, touch >>

Next ==
    \/ \E k \in Keys, r \in TextureRects : Pack(k, r)
    \/ \E r \in TextureRects : CanPack(r)

Spec == Init /\ [][Next]_vars

(***************************************************************************)
(* The same calls on the largest bin only, for the properties of can_put   *)
(* that are stated for every start segment and every size asked.           *)
(***************************************************************************)
InitProfile == \E c \in FrameConfigs : InitWith(c, NoFrame)

SpecProfile == InitProfile /\ [][Next]_vars

(***************************************************************************)
(* The session of the worked example: a 200x200 bin, no padding, no        *)
(* extrusion, no rotation, and the three rectangles in any order.          *)
(***************************************************************************)
InitExample == InitWith(ExampleConfig, NoFrame)

ExamplePack(key, r) ==
    /\ Len(log) < MaxCalls
    /\ PackCall(key, r)
    /\ log' = Append(log, last')

NextExample == \E k \in Keys, r \in ExampleRects : ExamplePack(k, r)

SpecExample == InitExample /\ [][NextExample]_vars

(***************************************************************************)
(* A session of pack calls on one packer, every call and its result kept   *)
(* in log in call order.                                                   *)
(***************************************************************************)
SessionConfigs ==
    [max_width : {MaxWidth}, max_height : {MaxHeight + 2},
     allow_rotation : BOOLEAN,
     texture_padding : {0, MaxPadding}, texture_extrusion : {0, MaxExtrusion}]

InitSession == \E c \in SessionConfigs : InitWith(c, NoFrame)

SessionPack(key, r) ==
    /\ Len(log) < MaxCalls
    /\ PackCall(key, r)
    /\ log' = Append(log, last')

NextSession == \E k \in Keys, r \in TextureRects : SessionPack(k, r)

SpecSession == InitSession /\ [][NextSession]_vars

(***************************************************************************)
(* Frame geometry: the caller holds a frame, packs, and asks for the       *)
(* offset of the frame it holds.                                           *)
(***************************************************************************)
InitFrame == \E c \in FrameConfigs, f \in FrameInputs : InitWith(c, f)

Offset ==
    /\ alive
    /\ \E o \in offset_to_frame_center_before_trimming(held) :
          last' = Call("offset", "", NoRect, held, o.kind, NoFrame, NoRect,
                       FALSE, o.off)
    /\ pre' = skylines
    /\ probe' = NoProbe
    /\ UNCHANGED << config, border, skylines, log, held, sub, touch >>

Center ==
    /\ alive
    /\ \E o \in frame_center_before_trimming(Self, held) :
          last' = Call("center", "", NoRect, held, o.kind, NoFrame, NoRect,
                       FALSE, o.off)
    /\ pre' = skylines
    /\ probe' = NoProbe
    /\ UNCHANGED << config, border, skylines, log, held, sub, touch >>

NextFrame ==
    \/ \E k \in Keys, r \in TextureRects : Pack(k, r)
    \/ Offset
    \/ Center

SpecFrame == InitFrame /\ [][NextFrame]_vars

(***************************************************************************)
(* The SubTexture: a caller builds one with new or from_ref over a blank   *)
(* parent and sets and gets pixels through it.  sub is the SubTexture,     *)
(* touch the latest set or get: its arguments, its outcome, the            *)
(* SubTexture before it, and for a get the value written by the set right  *)
(* before it when that set was of the same pixel.                          *)
(***************************************************************************)
InitTexture == \E s \in SubTextures : InitAll(ExampleConfig, NoFrame, s)

Set(x, y, val) ==
    /\ touch.kind # "abort"
    /\ \E o \in SubTexture_set(sub, x, y, val) :
          /\ sub' = o.self
          /\ touch' = Touch("set", x, y, val, o.kind, NoGot, sub, NoWrote)
    /\ UNCHANGED << config, border, skylines, pre, last, probe, log, held >>

Get(x, y) ==
    /\ touch.kind # "abort"
    /\ touch' = Touch("get", x, y, 0, "ok", SubTexture_get(sub, x, y), sub,
                      IF touch.op = "set" /\ touch.x = x /\ touch.y = y
                        THEN [valid |-> TRUE, val |-> touch.val]
                        ELSE NoWrote)
    /\ UNCHANGED << config, border, skylines, pre, last, probe, log, held, sub >>

NextTexture ==
    \/ \E x \in 0 .. MaxCoord, y \in 0 .. MaxCoord, val \in Pixels : Set(x, y, val)
    \/ \E x \in 0 .. MaxCoord, y \in 0 .. MaxCoord : Get(x, y)

SpecTexture == InitTexture /\ [][NextTexture]_vars

(***************************************************************************)
(* Properties.                                                             *)
(***************************************************************************)
returned == last.op = "pack" /\ last.kind = "frame"

\* C1: every Frame returned by pack has its frame rectangle inside the bin:
\* x >= 0, y >= 0, x + w <= max_width, y + h <= max_height.
C1_FrameInsideBin ==
    returned =>
        /\ last.frame.frame.x >= 0
        /\ last.frame.frame.y >= 0
        /\ last.frame.frame.x + last.frame.frame.w <= config.max_width
        /\ last.frame.frame.y + last.frame.frame.h <= config.max_height

\* A frame is returned that ends on the right edge of a bin already in use.
C1_Witness ==
    /\ returned
    /\ Len(pre) >= 2
    /\ last.frame.frame.x > 0
    /\ last.frame.frame.x + last.frame.frame.w = config.max_width

\* C2: the profile is never empty, every segment has w > 0, the first starts
\* at 0, each starts where the previous one ends (hence strictly ascending
\* x), and the last ends at max_width.
C2_ProfilePartition ==
    /\ Len(skylines) >= 1
    /\ \A i \in 1 .. Len(skylines) : skylines[i].w > 0
    /\ skylines[1].x = 0
    /\ \A i \in 1 .. Len(skylines) - 1 :
          /\ skylines[i].x < skylines[i + 1].x
          /\ skylines[i + 1].x = skylines[i].x + skylines[i].w
    /\ skylines[Len(skylines)].x + skylines[Len(skylines)].w = config.max_width

\* A pack has just rebuilt a profile of three or more segments, removing or
\* fusing at least one segment on the way.
C2_Witness ==
    /\ returned
    /\ Len(skylines) >= 3
    /\ Len(skylines) <= Len(pre)

found_before == find_skyline(PreSelf, padded(PreSelf, last.rect.w),
                                      padded(PreSelf, last.rect.h))

\* C3: every pack call returns a Frame or none: none when no placement is
\* inside the bin, the Frame of the placement find_skyline found otherwise;
\* no call aborts on an assertion of split.
C3_PackNeverAborts ==
    last.op = "pack" =>
        /\ last.kind \in {"frame", "none"}
        /\ found_before.kind = "none" => last.kind = "none"
        /\ found_before.kind = "some" =>
              /\ last.kind = "frame"
              /\ last.placed = found_before.rect

\* C4: a pack that directly follows a can_pack of the same rectangle that
\* returned true returns a Frame, and the bottom edge of the placement it
\* commits equals the bottom edge the dry run computed.
C4_CanPackThenPack ==
    (last.op = "pack" /\ probe.valid /\ probe.ok) =>
        /\ last.kind = "frame"
        /\ Rect_bottom(last.placed) <= Rect_bottom(probe.placed)
        /\ Rect_bottom(last.placed) = Rect_bottom(probe.placed)

\* can_pack said yes on a profile of several segments and the pack followed.
C4_Witness ==
    /\ last.op = "pack"
    /\ probe.valid
    /\ probe.ok
    /\ Len(pre) >= 2
    /\ last.placed.y > 0

\* C5: without rotation every returned Frame has rotated = false and the
\* size of the texture.
C5_NoRotation ==
    (returned /\ ~config.allow_rotation) =>
        /\ ~last.frame.rotated
        /\ last.frame.frame.w = last.rect.w
        /\ last.frame.frame.h = last.rect.h

\* Rotation is off and a non-square texture was placed, padded, on a
\* profile where some start segment accepts the rotated footprint too.
C5_Witness ==
    /\ returned
    /\ ~config.allow_rotation
    /\ last.rect.w # last.rect.h
    /\ config.texture_padding + config.texture_extrusion > 0
    /\ \E i \in 1 .. Len(pre) :
          can_put(PreSelf, i, padded(PreSelf, last.rect.h),
                  padded(PreSelf, last.rect.w)).kind = "some"

fits_before(w, h) ==
    \E i \in 1 .. Len(pre) : can_put(PreSelf, i, w, h).kind = "some"

swapped == /\ last.frame.frame.w = last.rect.h
           /\ last.frame.frame.h = last.rect.w

\* C6: with rotation allowed, a rectangle with w # h that no start segment
\* accepts unrotated but some start segment accepts rotated is returned as
\* a Frame with rotated = true and the swapped footprint; and a returned
\* Frame has rotated = true exactly when its footprint is the swapped one
\* (for a square the two footprints are the same, so this is read for
\* w # h).
C6_RotatedWhenOnlyRotatedFits ==
    /\ ( /\ last.op = "pack"
         /\ config.allow_rotation
         /\ last.rect.w # last.rect.h
         /\ ~fits_before(padded(PreSelf, last.rect.w), padded(PreSelf, last.rect.h))
         /\ fits_before(padded(PreSelf, last.rect.h), padded(PreSelf, last.rect.w)) )
       => (returned /\ last.frame.rotated /\ swapped)
    /\ (returned /\ last.rect.w # last.rect.h) => (last.frame.rotated <=> swapped)

too_large(c, r) ==
    LET W == r.w + c.texture_padding + c.texture_extrusion * 2
        H == r.h + c.texture_padding + c.texture_extrusion * 2
    IN  /\ (W > c.max_width \/ H > c.max_height)
        /\ c.allow_rotation => (H > c.max_width \/ W > c.max_height)

\* C7: pack of a rectangle whose padded size exceeds the bin in every
\* permitted orientation returns none, without aborting.
C7_TooLargeIsNone ==
    (last.op = "pack" /\ too_large(config, last.rect)) => last.kind = "none"

\* A rectangle whose bare size fits the bin but whose padded size does not
\* was offered to a bin already in use.
C7_Witness ==
    /\ last.op = "pack"
    /\ too_large(config, last.rect)
    /\ pre[1].y > 0
    /\ last.rect.w <= config.max_width
    /\ last.rect.h <= config.max_height
    /\ last.kind = "none"

\* C8: can_pack changes nothing of the packer; a pack that returns none
\* leaves profile, border and configuration as they were; the profile
\* changes only in a pack that returns a Frame.
C8_OnlySuccessfulPackMutates ==
    [][ /\ last'.op = "can_pack" => UNCHANGED << skylines, border, config >>
        /\ (last'.op = "pack" /\ last'.kind = "none")
              => UNCHANGED << skylines, border, config >>
        /\ skylines' # skylines => (last'.op = "pack" /\ last'.kind = "frame")
        /\ UNCHANGED << border, config >> ]_vars

\* A can_pack that answered true, and a pack that returned none, on a
\* profile of several segments.
C8_Witness ==
    /\ Len(skylines) >= 2
    /\ \/ (last.op = "can_pack" /\ last.ok)
       \/ (last.op = "pack" /\ last.kind = "none" /\ ~too_large(config, last.rect))

example_session(n) ==
    /\ Len(log) >= n
    /\ n >= 1 => log[1].rect = Rect_new(0, 0, 100, 50)
    /\ n >= 2 => log[2].rect = Rect_new(0, 0, 100, 150)
    /\ n >= 3 => log[3].rect = Rect_new(0, 0, 100, 10)

placed_at(n, r) == log[n].kind = "frame" /\ log[n].frame.frame = r

\* C9 as stated: 100x50, 100x150, 100x10 in a fresh 200x200 bin give
\* (0,0,100,50), then (0,50,100,150), then a frame whose bottom does not
\* exceed 200.
C9_ExampleAsStated ==
    /\ example_session(1) => placed_at(1, Rect_new(0, 0, 100, 50))
    /\ example_session(2) => placed_at(2, Rect_new(0, 50, 100, 150))
    /\ example_session(3) =>
          /\ log[3].kind = "frame"
          /\ log[3].frame.frame.y + log[3].frame.frame.h <= 200

\* C9 amended: 100x50, 100x150, 100x10 in a fresh 200x200 bin give
\* (0,0,100,50), then (100,0,100,150) (the free right half, whose bottom
\* edge 149 is lower than 199), then a frame whose bottom does not exceed
\* 200.
C9_Example ==
    /\ example_session(1) => placed_at(1, Rect_new(0, 0, 100, 50))
    /\ example_session(2) => placed_at(2, Rect_new(100, 0, 100, 150))
    /\ example_session(3) =>
          /\ log[3].kind = "frame"
          /\ log[3].frame.frame.y + log[3].frame.frame.h <= 200

\* The three packs of the example have been made, in its order.
C9_Witness ==
    /\ example_session(3)
    /\ Len(log) = 3
    /\ log[3].kind = "frame"

\* C10: every Frame returned by pack has trimmed = false and source =
\* (0, 0, texture w, texture h); for every frame with trimmed = false the
\* offset to the frame centre before trimming is (0, 0).
C10_UntrimmedOffsetZero ==
    /\ returned =>
          /\ ~last.frame.trimmed
          /\ last.frame.source = Rect_new(0, 0, last.rect.w, last.rect.h)
    /\ (last.op = "offset" /\ ~last.arg.trimmed) =>
          /\ last.kind = "value"
          /\ last.off = Zero

\* The offset was asked of a frame that pack returned rotated, away from
\* the left edge, for a texture whose half width and half height differ.
C10_Witness ==
    /\ last.op = "offset"
    /\ ~last.arg.trimmed
    /\ last.arg.rotated
    /\ last.arg.frame.x > 0
    /\ last.arg.source.w \div 2 # last.arg.source.h \div 2
    /\ last.kind = "value"


inside_bin(r) ==
    /\ r.x >= 0
    /\ r.y >= 0
    /\ r.x + r.w <= config.max_width
    /\ r.y + r.h <= config.max_height

trimmed_inside(f) ==
    /\ f.trimmed
    /\ inside_bin(f.frame)
    /\ f.source.x + f.frame.w <= f.source.w
    /\ f.source.y + f.frame.h <= f.source.h

signed_offset(size, spos, fsize) == size \div 2 - (spos + fsize \div 2)

\* C11: for a trimmed frame inside the bin whose content lies inside its
\* source, the offset to the frame centre before trimming is the signed
\* source_center - trimmed_frame_center = source.w/2 - (source.x +
\* frame.w/2) on each axis: no subtraction underflows and the value
\* returned is that signed value.
C11_OffsetIsSignedDifference ==
    (last.op = "offset" /\ trimmed_inside(last.arg)) =>
        LET dx == signed_offset(last.arg.source.w, last.arg.source.x, last.arg.frame.w)
            dy == signed_offset(last.arg.source.h, last.arg.source.y, last.arg.frame.h)
        IN  /\ last.kind = "value"
            /\ dx >= 0
            /\ dy >= 0
            /\ last.off = << U32(dx), U32(dy) >>

signed_center(fpos, spos, ssize) == fpos - spos + ssize \div 2

\* C12: for a trimmed frame inside the bin the packer's frame centre before
\* trimming is the signed (frame.x - source.x + source.w/2, frame.y -
\* source.y + source.h/2) clamped into [0, max_width - 1] x
\* [0, max_height - 1], without abort, also when source.x > frame.x or
\* source.y > frame.y.
C12_CenterClampedToBorder ==
    (last.op = "center" /\ last.arg.trimmed /\ inside_bin(last.arg.frame)) =>
        LET cx == signed_center(last.arg.frame.x, last.arg.source.x, last.arg.source.w)
            cy == signed_center(last.arg.frame.y, last.arg.source.y, last.arg.source.h)
        IN  /\ last.kind = "value"
            /\ last.off = << U32(clamp(cx, 0, config.max_width - 1)),
                             U32(clamp(cy, 0, config.max_height - 1)) >>


frames == { i \in 1 .. Len(log) : log[i].kind = "frame" }

footprint(i) ==
    Rect_new(log[i].frame.frame.x, log[i].frame.frame.y,
             padded(Self, log[i].frame.frame.w), padded(Self, log[i].frame.frame.h))

disjoint(a, b) ==
    \/ a.x + a.w <= b.x
    \/ b.x + b.w <= a.x
    \/ a.y + a.h <= b.y
    \/ b.y + b.h <= a.y

\* C13: the padded footprints (frame.x, frame.y, w + padding + 2 extrusion,
\* h + padding + 2 extrusion) of the frames returned so far are pairwise
\* disjoint, and every footprint lies at or below the profile: for each
\* segment S overlapping footprint R horizontally, R.y + R.h <= S.y.
C13_FootprintsDisjoint ==
    /\ \A i, j \in frames : i < j => disjoint(footprint(i), footprint(j))
    /\ \A i \in frames : \A s \in 1 .. Len(skylines) :
          (footprint(i).x < skylines[s].x + skylines[s].w
             /\ skylines[s].x < footprint(i).x + footprint(i).w)
          => footprint(i).y + footprint(i).h <= skylines[s].y

\* Three frames were returned with padding, one of them stacked on another
\* and one of them rotated.
C13_Witness ==
    /\ Cardinality(frames) >= 3
    /\ config.texture_padding > 0
    /\ \E i, j \in frames :
          /\ i < j
          /\ log[j].frame.frame.y >= footprint(i).y + footprint(i).h
          /\ log[j].frame.frame.x < footprint(i).x + footprint(i).w
          /\ footprint(i).x < log[j].frame.frame.x + log[j].frame.frame.w
    /\ \E i \in frames : log[i].frame.rotated


\* The candidates of the find_skyline call of the latest pack or can_pack:
\* start segment i and orientation o (0 as given, 1 rotated) that can_put
\* accepts, with the rectangle, and the key the claim orders them by.
asked_w == padded(PreSelf, last.rect.w)

asked_h == padded(PreSelf, last.rect.h)

attempt(i, o) ==
    IF o = 0 THEN can_put(PreSelf, i, asked_w, asked_h)
             ELSE can_put(PreSelf, i, asked_h, asked_w)

candidates ==
    { c \in (1 .. Len(pre)) \X (IF config.allow_rotation THEN {0, 1} ELSE {0}) :
         attempt(c[1], c[2]).kind = "some" }

before_or_same(c, d) ==
    LET bc == Rect_bottom(attempt(c[1], c[2]).rect)
        bd == Rect_bottom(attempt(d[1], d[2]).rect)
        wc == pre[c[1]].w
        wd == pre[d[1]].w
    IN  \/ bc < bd
        \/ bc = bd /\ wc < wd
        \/ bc = bd /\ wc = wd /\ c[1] < d[1]
        \/ bc = bd /\ wc = wd /\ c[1] = d[1] /\ c[2] <= d[2]

\* C14: find_skyline returns none exactly when can_put fails for every
\* start segment and allowed orientation; otherwise it returns the
\* candidate with the smallest bottom edge, among those the one with the
\* narrowest start segment, among those the first in scan order (lowest
\* index, unrotated before rotated).
C14_FindSkylineChoice ==
    last.op \in {"pack", "can_pack"} =>
        /\ found_before.kind \in {"some", "none"}
        /\ found_before.kind = "none" <=> candidates = {}
        /\ found_before.kind = "some" =>
              \E c \in candidates :
                  /\ found_before.index = c[1]
                  /\ found_before.rect = attempt(c[1], c[2]).rect
                  /\ \A d \in candidates : before_or_same(c, d)

\* The choice was made among candidates that tie on the bottom edge with
\* start segments of different widths, and among candidates that tie on
\* both, and it is not the first candidate of the scan.
C14_Witness ==
    /\ last.op = "pack"
    /\ found_before.kind = "some"
    /\ config.allow_rotation
    /\ \E c, d \in candidates :
          /\ Rect_bottom(attempt(c[1], c[2]).rect) = Rect_bottom(attempt(d[1], d[2]).rect)
          /\ pre[c[1]].w < pre[d[1]].w
          /\ found_before.index = c[1]
          /\ d[1] < c[1]
    /\ \E c, d \in candidates :
          /\ c # d
          /\ Rect_bottom(attempt(c[1], c[2]).rect) = Rect_bottom(attempt(d[1], d[2]).rect)
          /\ pre[c[1]].w = pre[d[1]].w


\* The segments of the profile that intersect the columns [x, x + w), and
\* the rectangle of size w x h resting on the highest of them.
under(x, w) ==
    { j \in 1 .. Len(skylines) :
         skylines[j].x < x + w /\ skylines[j].x + skylines[j].w > x }

highest(x, w) ==
    CHOOSE y \in { skylines[j].y : j \in under(x, w) } :
        \A j \in under(x, w) : skylines[j].y <= y

resting(i, w, h) == Rect_new(skylines[i].x, highest(skylines[i].x, w), w, h)

Widths == 1 .. config.max_width + 1

Heights == 1 .. config.max_height + 1

\* C15: can_put(i, w, h) returns the rectangle with x = segment i's x, size
\* w x h and y = the largest y among exactly the segments intersecting
\* [x, x + w) (a segment starting at x + w is not counted), and returns none
\* exactly when that rectangle is not contained in the border.
C15_CanPutRectangle ==
    \A i \in 1 .. Len(skylines), w \in Widths, h \in Heights :
        LET r == resting(i, w, h)
            got == can_put(Self, i, w, h)
        IN  IF Rect_contains(border, r)
              THEN got = [kind |-> "some", rect |-> r]
              ELSE got.kind = "none"

\* On the profile a dry run has just scanned, one accepted rectangle spans
\* several segments and rests on a later one, and another ends exactly
\* where a higher segment starts.
C15_Witness ==
    /\ last.op = "can_pack"
    /\ \E i \in 1 .. Len(skylines), w \in Widths, h \in Heights :
          /\ can_put(Self, i, w, h).kind = "some"
          /\ Cardinality(under(skylines[i].x, w)) >= 2
          /\ can_put(Self, i, w, h).rect.y > skylines[i].y
    /\ \E i \in 1 .. Len(skylines), w \in Widths, h \in Heights :
          /\ can_put(Self, i, w, h).kind = "some"
          /\ \E j \in 1 .. Len(skylines) :
                /\ skylines[j].x = skylines[i].x + w
                /\ skylines[j].y > can_put(Self, i, w, h).rect.y


\* The height of a profile over a column: the y of the segment covering it
\* (-1 if no segment does).
height(sk, col) ==
    IF \E j \in 1 .. Len(sk) : sk[j].x <= col /\ col < sk[j].x + sk[j].w
      THEN sk[CHOOSE j \in 1 .. Len(sk) : sk[j].x <= col /\ col < sk[j].x + sk[j].w].y
      ELSE -1

Columns == 0 .. config.max_width - 1

\* C16: a successful pack with footprint R changes the height of the
\* profile only over R's columns, where it becomes R.y + R.h, strictly more
\* than before; over the other columns it is unchanged.  Heights never
\* decrease and never exceed max_height.
C16_HeightsOnlyRise ==
    /\ returned =>
          \A col \in Columns :
              IF last.placed.x <= col /\ col < last.placed.x + last.placed.w
                THEN /\ height(skylines, col) = last.placed.y + last.placed.h
                     /\ height(skylines, col) > height(pre, col)
                ELSE height(skylines, col) = height(pre, col)
    /\ \A col \in Columns :
          /\ height(skylines, col) >= height(pre, col)
          /\ height(skylines, col) >= 0
          /\ height(skylines, col) <= config.max_height

\* A frame was placed across columns of different heights while a column
\* raised by an earlier pack lies outside it.
C16_Witness ==
    /\ returned
    /\ \E c, d \in Columns :
          /\ last.placed.x <= c /\ c < last.placed.x + last.placed.w
          /\ last.placed.x <= d /\ d < last.placed.x + last.placed.w
          /\ height(pre, c) # height(pre, d)
    /\ \E c \in Columns :
          /\ ~(last.placed.x <= c /\ c < last.placed.x + last.placed.w)
          /\ height(pre, c) > 0


\* The profile split left for merge in the latest successful pack, and its
\* maximal runs a..b of adjacent segments of one height.
split_before == split(PreSelf, found_before.index, found_before.rect).skylines

run(sk, a, b) ==
    /\ a <= b
    /\ \A j \in a .. b : sk[j].y = sk[a].y
    /\ a > 1 => sk[a - 1].y # sk[a].y
    /\ b < Len(sk) => sk[b + 1].y # sk[b].y

RECURSIVE run_width(_, _, _)
run_width(sk, a, b) == IF a > b THEN 0 ELSE sk[a].w + run_width(sk, a + 1, b)

\* C17: initially and after every successful pack no two adjacent segments
\* have the same y; merge replaces every run of adjacent segments of equal
\* y, runs of three or more included, by one segment of the summed width,
\* and changes no height.
C17_NoEqualNeighbours ==
    /\ \A j \in 1 .. Len(skylines) - 1 : skylines[j].y # skylines[j + 1].y
    /\ returned =>
          /\ skylines = merge(split_before)
          /\ \A a, b \in 1 .. Len(split_before) :
                run(split_before, a, b) =>
                    \E j \in 1 .. Len(skylines) :
                        skylines[j] = Skyline(split_before[a].x, split_before[a].y,
                                              run_width(split_before, a, b))
          /\ \A col \in Columns : height(skylines, col) = height(split_before, col)

\* split left three or more adjacent segments of one height and merge
\* fused them.
C17_Witness ==
    /\ returned
    /\ \E a, b \in 1 .. Len(split_before) :
          /\ run(split_before, a, b)
          /\ b >= a + 2
    /\ Len(skylines) <= Len(split_before) - 2


\* C18: the walk of can_put never steps past the last segment: for every
\* start index and every w, h >= 1 the assertion i < skylines.len() holds,
\* in the calls find_skyline makes for pack and can_pack as well.
C18_WalkStaysInProfile ==
    /\ \A i \in 1 .. Len(skylines), w \in Widths, h \in Heights :
          can_put(Self, i, w, h).kind # "abort"
    /\ last.op \in {"pack", "can_pack"} => found_before.kind # "abort"

\* On a profile of three or more segments a walk from an inner segment ends
\* on the last segment with the width exactly used up, and a wider one from
\* the same start is refused.
C18_Witness ==
    /\ last.op \in {"pack", "can_pack"}
    /\ Len(skylines) >= 3
    /\ \E i \in 2 .. Len(skylines) - 1, h \in Heights :
          /\ can_put(Self, i, config.max_width - skylines[i].x, h).kind = "some"
          /\ can_put(Self, i, config.max_width - skylines[i].x + 1, h).kind = "none"


\* C19: a successful pack raises the number of segments by at most one and
\* never leaves the profile empty; after n successful packs the profile has
\* between 1 and n + 1 segments.
C19_SegmentCount ==
    /\ Len(skylines) >= 1
    /\ Len(skylines) <= Cardinality(frames) + 1
    /\ returned => Len(skylines) <= Len(pre) + 1

\* After three successful packs the profile had four segments, and the next
\* successful pack left fewer.
C19_Witness ==
    /\ returned
    /\ Cardinality(frames) >= 4
    /\ Len(pre) = Cardinality(frames)
    /\ Len(skylines) < Len(pre)


\* C20: set on a SubTexture made with from_ref always aborts and leaves the
\* parent as it was; set on one made with new writes the parent pixel at
\* (source.x + x, source.y + y) and no other, and a get(x, y) that follows
\* it returns the value written.
C20_SetThroughSubTexture ==
    /\ (touch.op = "set" /\ ~touch.before.texture.owned) =>
          /\ touch.kind = "abort"
          /\ sub = touch.before
    /\ ( /\ touch.op = "set"
         /\ touch.before.texture.owned
         /\ Texture_inside(touch.before.texture.t, touch.before.source.x + touch.x,
                           touch.before.source.y + touch.y) ) =>
          /\ touch.kind = "ok"
          /\ sub.texture.t.pixels =
                [touch.before.texture.t.pixels
                    EXCEPT ![<< touch.before.source.x + touch.x,
                                touch.before.source.y + touch.y >>] = touch.val]
          /\ sub.source = touch.before.source
          /\ SubTexture_get(sub, touch.x, touch.y) =
                [kind |-> "some", pixel |-> touch.val]
    /\ ( /\ touch.op = "get"
         /\ touch.wrote.valid
         /\ Texture_inside(sub.texture.t, sub.source.x + touch.x,
                           sub.source.y + touch.y) ) =>
          touch.got = [kind |-> "some", pixel |-> touch.wrote.val]

\* A get through an owning SubTexture with a shifted window has just read
\* back a pixel that the set before it changed.
C20_Witness ==
    /\ touch.op = "get"
    /\ touch.wrote.valid
    /\ sub.texture.owned
    /\ sub.source.x > 0
    /\ touch.got = [kind |-> "some", pixel |-> 1]
    /\ \E p \in DOMAIN sub.texture.t.pixels :
          /\ p # << sub.source.x + touch.x, sub.source.y + touch.y >>
          /\ sub.texture.t.pixels[p] = 1

\* A set through a borrowing SubTexture has just aborted.
C20_WitnessBorrowed ==
    /\ touch.op = "set"
    /\ ~touch.before.texture.owned
    /\ touch.before.source.x > 0

====
